---- MODULE Spec2Model ----
(***************************************************************************)
(* Beamium: the sink worker (scanner fold of src/sink.rs, Sender and Body  *)
(* of src/lib/asynch/http.rs) and the router worker (src/router.rs) as     *)
(* state machines over a spool directory.                                  *)
(*                                                                         *)
(* Sink spool files are numbered in the order the router produces them,    *)
(* so a smaller number is an older file.  The age of a file (now - mtime)  *)
(* is kept per file and grows with the clock; it is compared with ttl      *)
(* only, so it is counted up to ttl + 1.                                   *)
(*                                                                         *)
(* The HTTP exchange is abstracted as follows: the response of the server  *)
(* is delivered after the request body has returned end-of-stream; a       *)
(* transport error or a timeout can end the request at any moment.         *)
(***************************************************************************)
EXTENDS Integers, Sequences, FiniteSets, TLC

(* ------------------------------ bounds --------------------------------- *)
\* number of sink spool files the router produces during a run
MaxFiles == 3
\* largest length (bytes) of a produced sink spool file
MaxLen == 2
\* cap of the skip counters
MaxSkip == 2

\* number of source spool files the scrapers produce during a run
MaxSrc == 2
\* largest number of lines of a source spool file
MaxLines == 2
\* number of I/O faults during a run of the router
MaxFaults == 2

(* --------------------------- configuration ----------------------------- *)
\* largest conf.parallel: senders of a sink
MaxParallel == 2
\* conf.ttl
Ttl == 1
\* conf.size (max_size)
ConfSize == 3
\* params.batch_count
BatchCount == 2
\* params.batch_size
BatchSize == 3

Paths == 1..MaxFiles
Senders == 1..MaxParallel
NoPath == 0

\* conf.name of the sink the model follows, as its sequence of characters
SinkName == <<"a">>
\* the names of the other sinks of a configuration with a second sink `ab`
PeerNames == {<<"a", "b">>}

\* ExponentialBackoff::default(): the current_interval of a new backoff (the
\* default initial interval of the backoff crate, in units of 100 ms; the
\* model counts it in units that keep the intervals small)
DefaultInterval == 3
\* params.backoff of a configuration that leaves the defaults alone and
\* turns the randomization off
PlainBackoff == [initial |-> DefaultInterval, max |-> DefaultInterval, multiplier |-> 1,
                 randNum |-> 0, randDen |-> 1]
\* params.backoff with an initial interval and a maximum below the default
\* of the crate, a multiplier of 2 and a randomization of 1/2
ShortBackoff == [initial |-> 1, max |-> 2, multiplier |-> 2, randNum |-> 1, randDen |-> 2]

VARIABLES
  parallel,   \* conf.parallel: the number of senders Sink::start spawned
  produced,   \* number of sink spool files written so far by the router
  disk,       \* the `.metrics` files of this sink present in the sink spool
  age,        \* modified.elapsed() of each file, counted up to Ttl + 1
  len,        \* meta.len() of each file
  queue,      \* Sink.queue: VecDeque<PathBuf>, index 1 is the front
  acc,        \* the accumulator of the scanner fold (paths of the last scan)
  spawned,    \* remove_file futures spawned by the scanner, not yet run
  skipTtl,    \* BEAMIUM_SKIP_TTL, counted up to MaxSkip
  skipSize,   \* BEAMIUM_SKIP_MAX_SIZE, counted up to MaxSkip
  state,      \* Sender.state of each sender
  files,      \* Sender.files / Body.files: the consumed list (SegQueue)
  reader,     \* Body.reader: the open file, NoPath for None
  bcount,     \* Body.current_batch_count
  bsize,      \* Body.current_batch_size
  phase,      \* body: "poll" while polled, "eof" after Ready(None), "err"
  dropped,    \* path popped by the body whose File::open failed (NoPath if none)
  last,       \* outcome of the request a sender just ended (history)
  dirty,      \* a file was produced since the last scan (history)
  lastAdmitted \* length of the last file the scanner pushed in queue (history)

VARIABLES
  peers,      \* names of the other sinks of the configuration (same sink_dir)
  bconf,      \* params.backoff: initial, max, multiplier, randomization
  owner,      \* the sink whose name the router put at the head of the file name
  run,        \* the process: "up", "stopping" (stop flag set), "halted", "aborted"
  interval,   \* ExponentialBackoff.current_interval of each sender
  prevDelay,  \* the delay of the last backoff of the failure streak, 0 if none (history)
  ttlCounted, \* files on disk a scan has counted in BEAMIUM_SKIP_TTL (history)
  admitted    \* files on disk a scan has pushed in the queue (history)

VARIABLES
  entry,      \* the function that runs the process: "main" (main.rs) or "cmd" (cmd.rs)
  down        \* the runtimes shut down so far, in the order of their shutdown

\* the configuration: no action changes it
cfgVars == <<peers, bconf>>
\* the shutdown of the process
haltVars == <<entry, down>>
\* the backoff of the senders
boVars == <<interval, prevDelay>>
\* what the scans have done to the files on disk
scanHist == <<ttlCounted, admitted>>

sinkVars == <<parallel, produced, disk, age, len, queue, acc, spawned, skipTtl, skipSize,
              state, files, reader, bcount, bsize, phase, dropped, last, dirty,
              lastAdmitted, cfgVars, haltVars, owner, run, boVars, scanHist>>

VARIABLES
  srcProduced, \* number of source spool files written so far by the scrapers
  srcDisk,     \* the `.metrics` files present in the source spool
  content,     \* the lines of each source spool file
  rstate,      \* the seen set of the router: the mutex-guarded fold state
  task,        \* the step each per-file task is at, "none" when no task runs
  lines,       \* the lines a task carries from one step to the next
  widx,        \* Router::write: index of the next sink of the join
  sinkSpool,   \* the files the router has left in the sink spool
  faults,      \* I/O faults (errors, short writes) injected so far
  failed,      \* paths whose task failed and were not dispatched since (history)
  missed       \* failed paths a scan listed and did not dispatch (history)

routerVars == <<srcProduced, srcDisk, content, rstate, task, lines, widx,
                sinkSpool, faults, failed, missed>>

VARIABLES
  tsrc,       \* the line given to the transcompiler or to the label editor
  tline,      \* the result of the last call: Ok(line) or Err(error)
  tops        \* the calls made so far on tsrc, each with its argument (history)

textVars == <<tsrc, tline, tops>>

VARIABLES
  nscrapers,   \* the number of scrapers of the configuration
  headersOk,   \* whether conf.headers of each scraper are valid HTTP headers
  sformat,     \* conf.format of each scraper: "prometheus" or "sensision"
  smaxlines,   \* the most lines the endpoint of each scraper answers
  sbatch,      \* params.batch_size
  sphase,      \* the step the spawned future of each scraper is at, "idle" if none
  sdata,       \* the body fetched, then the lines processed, by that future
  fetchErrors, \* BEAMIUM_FETCH_ERRORS of each scraper, counted up to MaxErrors
  serror,      \* the last "fetch failed" log line: its scraper and its error
  chunks       \* the files the last Scraper::write of each scraper left, in order

\* the configuration of the scrapers: no action changes it
scfgVars == <<nscrapers, headersOk, sformat, smaxlines, sbatch>>

scraperVars == <<scfgVars, sphase, sdata, fetchErrors, serror, chunks>>

vars == <<sinkVars, routerVars, textVars, scraperVars>>

(* ------------------------------ helpers -------------------------------- *)
RECURSIVE Reverse(_)
Reverse(s) == IF s = <<>> THEN <<>> ELSE Append(Reverse(Tail(s)), Head(s))

Range(s) == {s[i] : i \in 1..Len(s)}

Min(a, b) == IF a < b THEN a ELSE b

RECURSIVE SumLen(_)
SumLen(S) == IF S = {} THEN 0
             ELSE LET f == CHOOSE x \in S : TRUE IN len[f] + SumLen(S \ {f})

\* the orders in which a HashSet of paths can be iterated
Orders(S) == {o \in [1..Cardinality(S) -> S] :
                \A i, j \in 1..Cardinality(S) : o[i] = o[j] => i = j}

NoLast == [kind |-> "none", n |-> 0]

\* str::starts_with on names given as sequences of characters
StartsWith(name, prefix) ==
  Len(prefix) <= Len(name) /\ SubSeq(name, 1, Len(prefix)) = prefix

\* the process is alive: neither aborted nor shut down
Running == run \in {"up", "stopping"}

(* ------------------------------ initial state -------------------------- *)
SinkInit(par, others, backoff) ==
  /\ parallel = par
  /\ peers = others
  /\ bconf = backoff
  /\ owner = [f \in Paths |-> SinkName]
  /\ run = "up"
  /\ interval = [s \in Senders |-> DefaultInterval]
  /\ prevDelay = [s \in Senders |-> 0]
  /\ ttlCounted = {}
  /\ admitted = {}
  /\ produced = 0
  /\ disk = {}
  /\ age = [f \in Paths |-> 0]
  /\ len = [f \in Paths |-> 0]
  /\ queue = <<>>
  /\ acc = {}
  /\ spawned = {}
  /\ skipTtl = 0
  /\ skipSize = 0
  /\ state = [s \in Senders |-> "Idle"]
  /\ files = [s \in Senders |-> <<>>]
  /\ reader = [s \in Senders |-> NoPath]
  /\ bcount = [s \in Senders |-> 0]
  /\ bsize = [s \in Senders |-> 0]
  /\ phase = [s \in Senders |-> "poll"]
  /\ dropped = [s \in Senders |-> NoPath]
  /\ last = [s \in Senders |-> NoLast]
  /\ dirty = FALSE
  /\ lastAdmitted = 0

(* ------------------------- environment: clock, router ------------------ *)
\* the clock advances: every file on disk gets older
Tick ==
  /\ \E f \in disk : age[f] <= Ttl
  /\ age' = [f \in Paths |-> IF f \in disk THEN Min(Ttl + 1, age[f] + 1) ELSE age[f]]
  /\ UNCHANGED <<routerVars, textVars, scraperVars, cfgVars, haltVars, owner, run, boVars, scanHist, parallel, produced, disk, len, queue, acc, spawned, skipTtl, skipSize,
                 state, files, reader, bcount, bsize, phase, dropped, last,
                 dirty, lastAdmitted>>

\* the router renames a new file of one of the sinks to `.metrics`; the file
\* is empty when nothing of the body had been written before the rename
Produce ==
  /\ Running
  /\ produced < MaxFiles
  /\ \E n \in 0..MaxLen, o \in {SinkName} \cup peers :
       /\ produced' = produced + 1
       /\ disk' = disk \cup {produced + 1}
       /\ len' = [len EXCEPT ![produced + 1] = n]
       /\ owner' = [owner EXCEPT ![produced + 1] = o]
  /\ dirty' = TRUE
  /\ UNCHANGED <<routerVars, textVars, scraperVars, cfgVars, haltVars, run, boVars, scanHist, parallel, age, queue, acc, spawned, skipTtl, skipSize, state, files,
                 reader, bcount, bsize, phase, dropped, last, lastAdmitted>>

(* ------------------------------ scanner -------------------------------- *)
\* files which have expired: age > conf.ttl
Expired(ents) == {f \in ents : age[f] > Ttl}

\* files that are not expired: age < conf.ttl
Fresh(ents) == {f \in ents : age[f] < Ttl}

\* for path in new { queue.push_front(path) }
Admit(q, order) == Reverse(order) \o q

\* an eviction loop that pops the front of the queue
RECURSIVE EvictFront(_, _, _, _, _)
EvictFront(q, cur, ents, n, rm) ==
  IF cur > ConfSize /\ q # <<>>
  THEN IF Head(q) \in ents
       THEN EvictFront(Tail(q), cur - len[Head(q)], ents, n + 1, Append(rm, Head(q)))
       ELSE EvictFront(Tail(q), cur, ents, n, rm)
  ELSE [queue |-> q, size |-> cur, skipped |-> n, removed |-> rm]

\* while current_size > conf.size { pop_back ... }
RECURSIVE EvictLoop(_, _, _, _, _)
EvictLoop(q, cur, ents, n, rm) ==
  IF cur > ConfSize /\ q # <<>>
  THEN LET path == q[Len(q)]
           rest == SubSeq(q, 1, Len(q) - 1)
       IN  IF path \in ents
           THEN EvictLoop(rest, cur - len[path], ents, n + 1, Append(rm, path))
           ELSE EvictLoop(rest, cur, ents, n, rm)
  ELSE [queue |-> q, size |-> cur, skipped |-> n, removed |-> rm]

\* file_name.starts_with(conf.name): the entries the fold keeps
Mine(ents) == {f \in ents : StartsWith(owner[f], SinkName)}

\* Scanner::scan: the entries whose meta.len() is 0
ZeroLen(ents) == {f \in ents : len[f] = 0}

\* the closure of the fold of the sink on the entries of one scan
ScanFold(entries) ==
  LET expired == Expired(Mine(entries))
      paths == Fresh(Mine(entries))
      new == paths \ acc
  IN  \E order \in Orders(new) :
        LET r == EvictLoop(Admit(queue, order), SumLen(paths), paths, 0, <<>>)
        IN  /\ queue' = r.queue
            /\ spawned' = spawned \cup expired \cup Range(r.removed)
            /\ skipTtl' = Min(MaxSkip, skipTtl + Cardinality(expired))
            /\ skipSize' = Min(MaxSkip, skipSize + r.skipped)
            /\ acc' = paths
            /\ lastAdmitted' = IF new = {} THEN lastAdmitted
                               ELSE len[order[Cardinality(new)]]
            /\ ttlCounted' = ttlCounted \cup expired
            /\ admitted' = admitted \cup new

\* one tick of the scanner.  Scanner::scan lists the `.metrics` files of the
\* directory, removes the empty ones and returns the others; the closure of
\* the fold runs on them in the same poll of the scanner task.  When a
\* remove_file of an empty file fails (a scanner of another sink, which
\* scans the same directory, has removed the file since the stat), the
\* join_all of the removals fails, the scan fails and the map_err of the
\* scanner aborts the process.
Scan ==
  /\ Running
  /\ LET listing == disk
         zero == ZeroLen(listing)
     IN  \/ /\ disk' = disk \ zero
            /\ ScanFold(listing \ zero)
            /\ dirty' = FALSE
            /\ UNCHANGED run
         \/ /\ peers # {}
            /\ \E raced \in SUBSET zero \ {{}} :
                 \E done \in SUBSET (zero \ raced) : disk' = disk \ (raced \cup done)
            /\ run' = "aborted"
            /\ UNCHANGED <<queue, spawned, skipTtl, skipSize, acc, lastAdmitted, dirty,
                           scanHist>>
  /\ UNCHANGED <<routerVars, textVars, scraperVars, cfgVars, haltVars, owner, boVars, parallel, produced, age, len, state,
                 files, reader, bcount, bsize, phase, dropped, last>>

\* a remove_file future spawned by the scanner runs; an error is only logged
ExecRemove ==
  /\ Running
  /\ \E f \in spawned :
       /\ spawned' = spawned \ {f}
       /\ disk' = disk \ {f}
       /\ ttlCounted' = ttlCounted \ {f}
       /\ admitted' = admitted \ {f}
  /\ UNCHANGED <<routerVars, textVars, scraperVars, cfgVars, haltVars, owner, run, boVars, parallel, produced, age, len, queue, acc, skipTtl, skipSize, state,
                 files, reader, bcount, bsize, phase, dropped, last, dirty,
                 lastAdmitted>>

(* ------------------------------ sender --------------------------------- *)
\* State::Idle: the queue is empty, or its lock is held by another thread
IdleWait(s) ==
  /\ Running
  /\ state[s] = "Idle"
  /\ state' = [state EXCEPT ![s] = "Waiting"]
  /\ last' = [last EXCEPT ![s] = NoLast]
  /\ UNCHANGED <<routerVars, textVars, scraperVars, cfgVars, haltVars, owner, run, boVars, scanHist, parallel, produced, disk, age, len, queue, acc, spawned, skipTtl,
                 skipSize, files, reader, bcount, bsize, phase, dropped, dirty,
                 lastAdmitted>>

\* State::Idle: build a Body bound to the queue and start the request
IdleSend(s) ==
  /\ Running
  /\ state[s] = "Idle"
  /\ queue # <<>>
  /\ state' = [state EXCEPT ![s] = "Sending"]
  /\ last' = [last EXCEPT ![s] = NoLast]
  /\ UNCHANGED <<routerVars, textVars, scraperVars, cfgVars, haltVars, owner, run, boVars, scanHist, parallel, produced, disk, age, len, queue, acc, spawned, skipTtl,
                 skipSize, files, reader, bcount, bsize, phase, dropped, dirty,
                 lastAdmitted>>

\* State::Waiting: one THREAD_SLEEP interval, then Idle
Waiting(s) ==
  /\ Running
  /\ state[s] = "Waiting"
  /\ state' = [state EXCEPT ![s] = "Idle"]
  /\ UNCHANGED <<routerVars, textVars, scraperVars, cfgVars, haltVars, owner, run, boVars, scanHist, parallel, produced, disk, age, len, queue, acc, spawned, skipTtl,
                 skipSize, files, reader, bcount, bsize, phase, dropped, last,
                 dirty, lastAdmitted>>

\* a sender that starts a request again as soon as its delay has elapsed
BackoffResend(s) ==
  /\ Running
  /\ state[s] = "Backoff"
  /\ state' = [state EXCEPT ![s] = "Sending"]
  /\ last' = [last EXCEPT ![s] = NoLast]
  /\ UNCHANGED <<routerVars, textVars, scraperVars, cfgVars, haltVars, owner, run, boVars, scanHist, parallel, produced, disk, age, len, queue, acc, spawned, skipTtl,
                 skipSize, files, reader, bcount, bsize, phase, dropped, dirty,
                 lastAdmitted>>

\* State::Backoff: the delay elapses, then Idle
Backoff(s) ==
  /\ Running
  /\ state[s] = "Backoff"
  /\ state' = [state EXCEPT ![s] = "Idle"]
  /\ last' = [last EXCEPT ![s] = NoLast]
  /\ UNCHANGED <<routerVars, textVars, scraperVars, cfgVars, haltVars, owner, run, boVars, scanHist, parallel, produced, disk, age, len, queue, acc, spawned, skipTtl,
                 skipSize, files, reader, bcount, bsize, phase, dropped, dirty,
                 lastAdmitted>>

\* batch limits that are reached only once they are exceeded
BatchOver(s) == bcount[s] > BatchCount \/ bsize[s] > BatchSize

\* the batch limits of Body::poll_data
BatchFull(s) == bcount[s] >= BatchCount \/ bsize[s] >= BatchSize

\* a read of the front of the queue that leaves the path in the queue
FrontPath(q) == [path |-> Head(q), rest |-> q]

\* queue.pop_front()
PopPath(q) == [path |-> Head(q), rest |-> Tail(q)]

\* Body::poll_data, reader None: pop a path and open it.  The path is pushed
\* on `files` after File::open returned a file; when File::open fails (the
\* file is gone, or an I/O error on a file that exists) the `?` returns the
\* error and the popped path is in neither the queue nor `files`.
BodyPop(s) ==
  /\ Running
  /\ state[s] = "Sending"
  /\ phase[s] = "poll"
  /\ reader[s] = NoPath
  /\ ~BatchFull(s)
  /\ queue # <<>>
  /\ LET path == PopPath(queue).path
     IN  /\ queue' = PopPath(queue).rest
         /\ \/ /\ path \in disk
               /\ reader' = [reader EXCEPT ![s] = path]
               /\ files' = [files EXCEPT ![s] = Append(@, path)]
               /\ bcount' = [bcount EXCEPT ![s] = @ + 1]
               /\ UNCHANGED <<phase, dropped>>
            \/ /\ phase' = [phase EXCEPT ![s] = "err"]
               /\ dropped' = [dropped EXCEPT ![s] = path]
               /\ UNCHANGED <<reader, files, bcount>>
  /\ UNCHANGED <<routerVars, textVars, scraperVars, cfgVars, haltVars, owner, run, boVars, scanHist, parallel, produced, disk, age, len, acc, spawned, skipTtl, skipSize,
                 state, bsize, last, dirty, lastAdmitted>>

\* Body::poll_data, reader Some: the lines of the file are read up to its
\* end (files are shorter than CHUNK_SIZE) and the reader is dropped
BodyRead(s) ==
  /\ Running
  /\ state[s] = "Sending"
  /\ phase[s] = "poll"
  /\ reader[s] # NoPath
  /\ bsize' = [bsize EXCEPT ![s] = @ + len[reader[s]]]
  /\ reader' = [reader EXCEPT ![s] = NoPath]
  /\ UNCHANGED <<routerVars, textVars, scraperVars, cfgVars, haltVars, owner, run, boVars, scanHist, parallel, produced, disk, age, len, queue, acc, spawned, skipTtl,
                 skipSize, state, files, bcount, phase, dropped, last, dirty,
                 lastAdmitted>>

\* Body::poll_data, reader None: Ready(None) when the batch is full or the
\* queue is empty
BodyEnd(s) ==
  /\ Running
  /\ state[s] = "Sending"
  /\ phase[s] = "poll"
  /\ reader[s] = NoPath
  /\ BatchFull(s) \/ queue = <<>>
  /\ phase' = [phase EXCEPT ![s] = "eof"]
  /\ UNCHANGED <<routerVars, textVars, scraperVars, cfgVars, haltVars, owner, run, boVars, scanHist, parallel, produced, disk, age, len, queue, acc, spawned, skipTtl,
                 skipSize, state, files, reader, bcount, bsize, dropped, last,
                 dirty, lastAdmitted>>

\* the request ends: its Body is dropped and self.files has been emptied
EndRequest(s) ==
  /\ files' = [files EXCEPT ![s] = <<>>]
  /\ reader' = [reader EXCEPT ![s] = NoPath]
  /\ bcount' = [bcount EXCEPT ![s] = 0]
  /\ bsize' = [bsize EXCEPT ![s] = 0]
  /\ phase' = [phase EXCEPT ![s] = "poll"]
  /\ dropped' = [dropped EXCEPT ![s] = NoPath]

\* while let Ok(file) = self.files.pop() { queue.push_front(file) }
PushBack(q, fs) == Reverse(fs) \o q

\* a sender that unlinks the consumed files on the error branch
FailUnlinkAll(fs) == Range(fs)

\* the files the sender unlinks on the error branch: none
FailUnlink(fs) == {}

\* ExponentialBackoff::increment_current_interval: the interval times the
\* multiplier, max_interval once that reaches it
IncrementInterval(cur) ==
  IF cur * bconf.multiplier >= bconf.max THEN bconf.max ELSE cur * bconf.multiplier

\* ExponentialBackoff::get_random_value_from_interval: a value within
\* randomization_factor of the current interval, on either side
RandomDelays(cur) ==
  LET delta == (cur * bconf.randNum) \div bconf.randDen
  IN  (cur - delta)..(cur + delta)

\* self.backoff.next_backoff(): the delay is drawn around the current
\* interval, then the current interval is incremented
NextBackoff(s) ==
  \E d \in RandomDelays(interval[s]) :
    /\ prevDelay' = [prevDelay EXCEPT ![s] = d]
    /\ interval' = [interval EXCEPT ![s] = IncrementInterval(@)]

\* self.backoff.reset(): the current interval is initial_interval again
ResetInterval(cur) == bconf.initial

\* State::Sending, Ok(Ready): self.backoff.reset()
ResetBackoff(s) ==
  /\ interval' = [interval EXCEPT ![s] = ResetInterval(@)]
  /\ prevDelay' = [prevDelay EXCEPT ![s] = 0]

\* the history of the scans follows the files that are left on disk
KeepHist(d) ==
  /\ ttlCounted' = ttlCounted \cap d
  /\ admitted' = admitted \cap d

\* State::Sending, Err: non-2xx status, transport error, timeout, or an
\* error of the body
PostFail(s) ==
  /\ Running
  /\ state[s] = "Sending"
  /\ queue' = PushBack(queue, files[s])
  /\ disk' = disk \ FailUnlink(files[s])
  /\ KeepHist(disk \ FailUnlink(files[s]))
  /\ state' = [state EXCEPT ![s] = "Backoff"]
  /\ last' = [last EXCEPT ![s] = [kind |-> "fail", n |-> Len(files[s])]]
  /\ NextBackoff(s)
  /\ EndRequest(s)
  /\ UNCHANGED <<routerVars, textVars, scraperVars, cfgVars, haltVars, owner, run, parallel, produced, age, len, acc, spawned, skipTtl, skipSize, dirty,
                 lastAdmitted>>

\* join_all of Sender::remove over the popped files, polled in order: the
\* first remove_file that fails ends the join with its error
RECURSIVE RemoveAll(_, _)
RemoveAll(fs, d) ==
  IF fs = <<>> THEN [ok |-> TRUE, disk |-> d]
  ELSE IF Head(fs) \in d
       THEN RemoveAll(Tail(fs), d \ {Head(fs)})
       ELSE [ok |-> FALSE, disk |-> d]

\* State::Sending, the request future on a 2xx status: every popped file is
\* removed; the request is Ok when every remove_file succeeded, and the
\* sender resets its backoff and is Idle; else the sender takes the Err
\* branch with nothing left in `files`
Success(s) ==
  /\ Running
  /\ state[s] = "Sending"
  /\ phase[s] = "eof"
  /\ LET r == RemoveAll(files[s], disk)
     IN  /\ disk' = r.disk
         /\ KeepHist(r.disk)
         /\ state' = [state EXCEPT ![s] = IF r.ok THEN "Idle" ELSE "Backoff"]
         /\ last' = [last EXCEPT ![s] = [kind |-> IF r.ok THEN "ok" ELSE "rmerr",
                                         n |-> Len(files[s])]]
         /\ IF r.ok THEN ResetBackoff(s) ELSE NextBackoff(s)
  /\ EndRequest(s)
  /\ UNCHANGED <<routerVars, textVars, scraperVars, cfgVars, haltVars, owner, run, parallel, produced, age, len, queue, acc, spawned, skipTtl, skipSize,
                 dirty, lastAdmitted>>

(* ------------------------ the other sinks ------------------------------ *)
\* another sink of the configuration unlinks a file of the shared directory:
\* its scanner removes an empty file, or its scanner or one of its senders
\* removes a file whose name starts with the name of that sink
PeerRemove ==
  /\ Running
  /\ \E f \in disk :
       /\ len[f] = 0 \/ \E p \in peers : StartsWith(owner[f], p)
       /\ peers # {}
       /\ disk' = disk \ {f}
       /\ KeepHist(disk \ {f})
  /\ UNCHANGED <<routerVars, textVars, scraperVars, cfgVars, haltVars, owner, run, boVars, parallel, produced, age, len, queue,
                 acc, spawned, skipTtl, skipSize, state, files, reader, bcount, bsize,
                 phase, dropped, last, dirty, lastAdmitted>>

(* ------------------------------ shutdown ------------------------------- *)
\* the signal handler stores the stop flag; the runtimes of the workers keep
\* polling their tasks, none of which reads the flag
SetStop ==
  /\ run = "up"
  /\ run' = "stopping"
  /\ UNCHANGED <<routerVars, textVars, scraperVars, cfgVars, haltVars, owner, boVars, scanHist, parallel, produced, disk, age,
                 len, queue, acc, spawned, skipTtl, skipSize, state, files, reader, bcount,
                 bsize, phase, dropped, last, dirty, lastAdmitted>>

\* the functions of the repository that start the workers, wait for the
\* stop flag and shut the runtimes down
EntryPoints == {"main", "cmd"}

\* the order in which an entry point shuts the runtimes down once it has
\* seen the flag
StopOrder(e) ==
  IF e = "main" THEN <<"scrapers", "router", "sinks", "metrics">>
                ELSE <<"scrapers", "sinks", "router", "metrics">>

HaltInit(entries) ==
  /\ entry \in entries
  /\ down = <<>>

\* rt.shutdown_now().wait() of the runtime(s) of pool p, when p is the pool
\* the entry point has reached
ShutdownNow(p) ==
  /\ run \in {"stopping", "halted"}
  /\ Len(down) < Len(StopOrder(entry))
  /\ StopOrder(entry)[Len(down) + 1] = p
  /\ down' = Append(down, p)
  /\ UNCHANGED <<routerVars, textVars, scraperVars, cfgVars, entry, owner, boVars, scanHist, parallel, produced,
                 disk, age, len, queue, acc, spawned, skipTtl, skipSize, state, files,
                 reader, bcount, bsize, phase, dropped, last, dirty, lastAdmitted>>

ShutdownScrapers == ShutdownNow("scrapers") /\ UNCHANGED run

ShutdownRouter == ShutdownNow("router") /\ UNCHANGED run

\* shutdown_now of the runtime of the sink drops its tasks as they are
ShutdownSinks == ShutdownNow("sinks") /\ run' = "halted"

ShutdownMetrics == ShutdownNow("metrics") /\ UNCHANGED run

(* ------------------------------ router --------------------------------- *)
SrcPaths == 1..MaxSrc

\* a canonical line `<ts>// <class>{<labels>} <value>`: its class, whether
\* it holds a `{`, and its labels
Line(c, b) == [class |-> c, brace |-> b, labels |-> <<>>]
\* a line with labels of its own, each a pair <<key, value>>
LabelledLine(c, ls) == [class |-> c, brace |-> TRUE, labels |-> ls]
SrcLines == {Line("foo", TRUE), Line("bar", TRUE), Line("bar", FALSE),
             LabelledLine("bar", <<<<"job", "foo">>>>)}

\* the contents of a source spool file: one to MaxLines lines
SrcContents == UNION {[1..n -> SrcLines] : n \in 1..MaxLines}

\* conf.labels, joined as `k=v,...`
GlobalLabels == <<<<"host", "h1">>>>

\* conf.sinks in configured order: name and selector ("" for None)
RouterSinks == <<[name |-> "a", selector |-> "foo"], [name |-> "b", selector |-> ""]>>

\* lib::add_labels: the line itself for empty labels, an error for a line
\* without `{`, else the labels inserted after the first `{`
AddLabels(line, labels) ==
  IF labels = <<>> THEN [ok |-> TRUE, line |-> line]
  ELSE IF ~line.brace THEN [ok |-> FALSE, line |-> line]
  ELSE [ok |-> TRUE, line |-> [line EXCEPT !.labels = labels \o @]]

\* Router::process: add the labels to every non-empty line; the first error
\* ends the task
RECURSIVE ProcessLines(_, _)
ProcessLines(ls, labels) ==
  IF ls = <<>> THEN [ok |-> TRUE, lines |-> <<>>]
  ELSE LET l == AddLabels(Head(ls), labels)
           rest == ProcessLines(Tail(ls), labels)
       IN  IF l.ok /\ rest.ok THEN [ok |-> TRUE, lines |-> <<l.line>> \o rest.lines]
           ELSE [ok |-> FALSE, lines |-> <<>>]

\* a selector applied to the class of the line alone
ClassIsMatch(selector, line) == line.class = selector

\* selector.is_match(class) on the second whitespace-separated token of the
\* line, `<class>{<labels>}`: the regex is searched in the whole token, the
\* labels included (a selector is a word here, found in the token when it
\* is the class, or the key or the value of a label)
IsMatch(selector, line) ==
  \/ line.class = selector
  \/ \E i \in 1..Len(line.labels) : selector \in {line.labels[i][1], line.labels[i][2]}

\* Router::write: the body of a sink: every line without selector, else the
\* lines whose class matches, in the order of the source
RECURSIVE SinkBody(_, _)
SinkBody(ls, sink) ==
  IF ls = <<>> THEN <<>>
  ELSE IF sink.selector = "" \/ IsMatch(sink.selector, Head(ls))
       THEN <<Head(ls)>> \o SinkBody(Tail(ls), sink)
       ELSE SinkBody(Tail(ls), sink)

RouterInit ==
  /\ srcProduced = 0
  /\ srcDisk = {}
  /\ content = [p \in SrcPaths |-> <<>>]
  /\ rstate = {}
  /\ task = [p \in SrcPaths |-> "none"]
  /\ lines = [p \in SrcPaths |-> <<>>]
  /\ widx = [p \in SrcPaths |-> 1]
  /\ sinkSpool = {}
  /\ faults = 0
  /\ failed = {}
  /\ missed = {}

\* a scraper renames a new source spool file to `.metrics`
Scrape ==
  /\ srcProduced < MaxSrc
  /\ \E c \in SrcContents :
       /\ srcProduced' = srcProduced + 1
       /\ srcDisk' = srcDisk \cup {srcProduced + 1}
       /\ content' = [content EXCEPT ![srcProduced + 1] = c]
  /\ UNCHANGED <<sinkVars, textVars, scraperVars, rstate, task, lines, widx, sinkSpool, faults, failed,
                 missed>>

\* a fold that takes every listed path for a new one
EveryPath(paths, st) == paths

\* paths.difference(&state)
NewPaths(paths, st) == paths \ st

\* the fold of the router over one scan: new paths enter the seen set and
\* get a task each, paths no longer listed leave the seen set
RouterScan ==
  /\ LET paths == srcDisk
         new == NewPaths(paths, rstate)
         delete == rstate \ paths
     IN  /\ rstate' = (rstate \cup new) \ delete
         /\ task' = [p \in SrcPaths |-> IF p \in new THEN "load" ELSE task[p]]
         /\ failed' = failed \ new
         /\ missed' = missed \cup ((failed \cap paths) \ new)
  /\ UNCHANGED <<sinkVars, textVars, scraperVars, srcProduced, srcDisk, content, lines, widx,
                 sinkSpool, faults>>

\* a map_err that leaves the path in the seen set
RecoverNothing(st, p) == st

\* state.remove(&epath) of the map_err of the task
Recover(st, p) == st \ {p}

\* the map_err of a task: the error is logged and the path leaves the seen
\* set; the source file is left in place
TaskFail(p) ==
  /\ rstate' = Recover(rstate, p)
  /\ task' = [task EXCEPT ![p] = "none"]
  /\ lines' = [lines EXCEPT ![p] = <<>>]
  /\ widx' = [widx EXCEPT ![p] = 1]
  /\ failed' = failed \cup {p}
  /\ UNCHANGED missed

\* an injected I/O fault
Fault ==
  /\ faults < MaxFaults
  /\ faults' = faults + 1

\* Router::load: open the file and read it to a string, split on `\n`
Load(p) ==
  /\ task[p] = "load"
  /\ \/ /\ p \in srcDisk
        /\ task' = [task EXCEPT ![p] = "process"]
        /\ lines' = [lines EXCEPT ![p] = content[p]]
        /\ UNCHANGED <<rstate, widx, failed, missed, faults>>
     \/ /\ Fault
        /\ TaskFail(p)
  /\ UNCHANGED <<sinkVars, textVars, scraperVars, srcProduced, srcDisk, content, sinkSpool>>

\* Router::process
Process(p) ==
  /\ task[p] = "process"
  /\ LET r == ProcessLines(lines[p], GlobalLabels)
     IN  IF ~r.ok
         THEN TaskFail(p)
         ELSE /\ task' = [task EXCEPT ![p] = "write"]
              /\ lines' = [lines EXCEPT ![p] = r.lines]
              /\ UNCHANGED <<rstate, widx, failed, missed>>
  /\ UNCHANGED <<sinkVars, textVars, scraperVars, srcProduced, srcDisk, content, sinkSpool, faults>>

\* what file.poll_write leaves in the file: the whole body, or, when the
\* call returns NotReady or a count below the length of the buffer (the
\* returned Async is dropped by `.and_then(|_| file.poll_flush())`), a
\* strict prefix of it
Written(body) == {SubSeq(body, 1, k) : k \in 0..Len(body)}

\* Router::write: the future of one sink of the join: create the `.tmp`
\* file, poll_write and poll_flush once, rename to `.metrics`.  The futures
\* are polled in the order of the sinks; the first error ends the join.
WriteSink(p) ==
  /\ task[p] = "write"
  /\ widx[p] <= Len(RouterSinks)
  /\ LET sink == RouterSinks[widx[p]]
         body == SinkBody(lines[p], sink)
         file(ext, w) == [src |-> p, sink |-> sink.name, ext |-> ext, body |-> w]
     IN  \/ /\ body = <<>>
            /\ widx' = [widx EXCEPT ![p] = @ + 1]
            /\ UNCHANGED <<sinkSpool, faults, rstate, task, lines, failed, missed>>
         \/ /\ body # <<>>
            /\ widx' = [widx EXCEPT ![p] = @ + 1]
            /\ \E w \in Written(body) :
                 /\ IF w = body THEN UNCHANGED faults ELSE Fault
                 /\ sinkSpool' = sinkSpool \cup {file("metrics", w)}
            /\ UNCHANGED <<rstate, task, lines, failed, missed>>
         \/ /\ body # <<>>
            /\ Fault
            /\ \/ UNCHANGED sinkSpool
               \/ sinkSpool' = sinkSpool \cup {file("tmp", <<>>)}
            /\ TaskFail(p)
  /\ UNCHANGED <<sinkVars, textVars, scraperVars, srcProduced, srcDisk, content>>

\* Router::write: the join of the sinks' futures is complete
WriteDone(p) ==
  /\ task[p] = "write"
  /\ widx[p] > Len(RouterSinks)
  /\ task' = [task EXCEPT ![p] = "remove"]
  /\ UNCHANGED <<sinkVars, textVars, scraperVars, srcProduced, srcDisk, content, rstate, lines, widx,
                 sinkSpool, faults, failed, missed>>

\* Router::remove: unlink the source file
Remove(p) ==
  /\ task[p] = "remove"
  /\ \/ /\ p \in srcDisk
        /\ srcDisk' = srcDisk \ {p}
        /\ task' = [task EXCEPT ![p] = "none"]
        /\ lines' = [lines EXCEPT ![p] = <<>>]
        /\ widx' = [widx EXCEPT ![p] = 1]
        /\ UNCHANGED <<rstate, failed, missed, faults>>
     \/ /\ Fault
        /\ TaskFail(p)
        /\ UNCHANGED srcDisk
  /\ UNCHANGED <<sinkVars, textVars, scraperVars, srcProduced, content, sinkSpool>>

(* ------------------------------- strings ------------------------------- *)
\* a string is the sequence of its characters
Ok(s) == [ok |-> TRUE, val |-> s]
Err(e) == [ok |-> FALSE, val |-> e]

\* str::find(c): the index of the first c of s, 0 for None
Find(s, c) ==
  IF \E i \in 1..Len(s) : s[i] = c
  THEN CHOOSE i \in 1..Len(s) : s[i] = c /\ \A j \in 1..(i - 1) : s[j] # c
  ELSE 0

\* str::rfind(c): the index of the last c of s, 0 for None
RFind(s, c) ==
  IF \E i \in 1..Len(s) : s[i] = c
  THEN CHOOSE i \in 1..Len(s) : s[i] = c /\ \A j \in (i + 1)..Len(s) : s[j] # c
  ELSE 0

\* the index of the first occurrence of the pattern pat in s, 0 for None
FindStr(s, pat) ==
  LET at(i) == i + Len(pat) - 1 <= Len(s) /\ SubSeq(s, i, i + Len(pat) - 1) = pat
  IN  IF \E i \in 1..Len(s) : at(i)
      THEN CHOOSE i \in 1..Len(s) : at(i) /\ \A j \in 1..(i - 1) : ~at(j)
      ELSE 0

\* str::splitn(2, pat): s itself when pat does not occur, else what is
\* before and what is after its first occurrence
SplitN2(s, pat) ==
  LET i == FindStr(s, pat)
  IN  IF i = 0 THEN <<s>>
      ELSE <<SubSeq(s, 1, i - 1), SubSeq(s, i + Len(pat), Len(s))>>

\* str::split(c)
RECURSIVE Split(_, _)
Split(s, c) ==
  LET i == Find(s, c)
  IN  IF i = 0 THEN <<s>>
      ELSE <<SubSeq(s, 1, i - 1)>> \o Split(SubSeq(s, i + 1, Len(s)), c)

\* [String]::join(sep)
RECURSIVE Join(_, _)
Join(parts, sep) ==
  IF parts = <<>> THEN <<>>
  ELSE IF Len(parts) = 1 THEN parts[1]
  ELSE parts[1] \o sep \o Join(Tail(parts), sep)

\* char::is_whitespace on the characters of the model
IsWhitespace(c) == c \in {" ", "\t"}

RECURSIVE TrimStart(_)
TrimStart(s) ==
  IF s # <<>> /\ IsWhitespace(Head(s)) THEN TrimStart(Tail(s)) ELSE s

\* str::trim
Trim(s) == Reverse(TrimStart(Reverse(TrimStart(s))))

\* str::split_whitespace: the non-empty words between whitespace
RECURSIVE SplitWhitespace(_)
SplitWhitespace(s) ==
  LET t == TrimStart(s)
      n == IF \E i \in 1..Len(t) : IsWhitespace(t[i])
           THEN CHOOSE i \in 1..Len(t) :
                  IsWhitespace(t[i]) /\ \A j \in 1..(i - 1) : ~IsWhitespace(t[j])
           ELSE Len(t) + 1
  IN  IF t = <<>> THEN <<>>
      ELSE <<SubSeq(t, 1, n - 1)>> \o SplitWhitespace(SubSeq(t, n, Len(t)))

\* the bytes urlencoding::encode escapes, among the characters of the model,
\* with their two hexadecimal digits; every other character of the model is
\* a letter, a digit or one of `-_.~` and is kept
Escaped == [c \in {" ", "\t", "\"", "#", "%", "+", ",", "/", "=", "\\", "{", "}"} |->
              CASE c = " " -> <<"2", "0">>
                [] c = "\t" -> <<"0", "9">>
                [] c = "\"" -> <<"2", "2">>
                [] c = "#" -> <<"2", "3">>
                [] c = "%" -> <<"2", "5">>
                [] c = "+" -> <<"2", "B">>
                [] c = "," -> <<"2", "C">>
                [] c = "/" -> <<"2", "F">>
                [] c = "=" -> <<"3", "D">>
                [] c = "\\" -> <<"5", "C">>
                [] c = "{" -> <<"7", "B">>
                [] c = "}" -> <<"7", "D">>]

\* urlencoding::encode
RECURSIVE encode(_)
encode(s) ==
  IF s = <<>> THEN <<>>
  ELSE (IF Head(s) \in DOMAIN Escaped THEN <<"%">> \o Escaped[Head(s)] ELSE <<Head(s)>>)
       \o encode(Tail(s))

(* ---------------------------- label editor ----------------------------- *)
\* an insertion that always puts a comma after the labels
add_with_comma(line, labels) ==
  IF labels = <<>> THEN Ok(line)
  ELSE LET parts == SplitN2(line, <<"{">>)
       IN  IF Len(parts) < 2 THEN Err("no_labels")
           ELSE Ok(parts[1] \o <<"{">> \o labels \o <<",">> \o parts[2])

\* lib::add_labels(line, labels)
add_labels(line, labels) ==
  IF labels = <<>> THEN Ok(line)
  ELSE LET parts == SplitN2(line, <<"{">>)
       IN  IF Len(parts) < 2 THEN Err("no_labels")
           ELSE LET class == parts[1]
                    plabels == parts[2]
                    sep == IF StartsWith(Trim(plabels), <<"}">>) THEN <<>> ELSE <<",">>
                IN  Ok(class \o <<"{">> \o labels \o sep \o plabels)

\* a filter that takes the first piece of a label for its key and the
\* second for its value
RECURSIVE KeptByFirst(_, _)
KeptByFirst(ls, labels_to_drop) ==
  IF ls = <<>> THEN <<>>
  ELSE LET label_splits == Split(Head(ls), "=")
           rest == KeptByFirst(Tail(ls), labels_to_drop)
       IN  IF Len(label_splits) < 2 THEN rest
           ELSE IF label_splits[2] \in labels_to_drop THEN rest
           ELSE <<label_splits[1] \o <<"=">> \o label_splits[2]>> \o rest

\* the closure chain of remove_labels over the labels of the line: a label
\* is cut at every `=`, its value is the last piece and its key the piece
\* before; a label of one piece is left out, and so is a label whose key is
\* to drop
RECURSIVE KeptLabels(_, _)
KeptLabels(ls, labels_to_drop) ==
  IF ls = <<>> THEN <<>>
  ELSE LET label_splits == Split(Head(ls), "=")
           n == Len(label_splits)
           rest == KeptLabels(Tail(ls), labels_to_drop)
       IN  IF n < 2 THEN rest
           ELSE LET value == label_splits[n]
                    key == label_splits[n - 1]
                IN  IF key \in labels_to_drop THEN rest
                    ELSE <<key \o <<"=">> \o value>> \o rest

\* lib::remove_labels(line, labels_to_drop)
remove_labels(line, labels_to_drop) ==
  IF labels_to_drop = {} THEN Ok(line)
  ELSE LET parts == SplitN2(line, <<"{">>)
       IN  IF Len(parts) < 2 THEN Err("no_labels")
           ELSE LET class == parts[1]
                    end_parts == SplitN2(parts[2], <<"}", " ">>)
                IN  IF Len(end_parts) < 2 THEN Err("no_value")
                    ELSE LET plabels == end_parts[1]
                             value == end_parts[2]
                             labels == KeptLabels(Split(plabels, ","), labels_to_drop)
                         IN  Ok(class \o <<"{">> \o Join(labels, <<",">>)
                                \o <<"}", " ">> \o value)

(* ---------------------------- transcompiler ---------------------------- *)
Digits == {"0", "1", "2", "3", "4", "5", "6", "7", "8", "9"}

\* i64::from_str_radix(v, 10) is Ok: an optional sign and at least one digit
\* (the numbers of the model are far from the ends of i64)
IsInteger(v) ==
  LET d == IF v # <<>> /\ Head(v) \in {"+", "-"} THEN Tail(v) ELSE v
  IN  d # <<>> /\ \A i \in 1..Len(d) : d[i] \in Digits

RECURSIVE StripZeros(_)
StripZeros(d) == IF Len(d) > 1 /\ Head(d) = "0" THEN StripZeros(Tail(d)) ELSE d

\* the decimal form of v * 1000 for an integer v
Times1000(v) ==
  LET neg == Head(v) = "-"
      d == StripZeros(IF Head(v) \in {"+", "-"} THEN Tail(v) ELSE v)
  IN  IF d = <<"0">> THEN d
      ELSE (IF neg THEN <<"-">> ELSE <<>>) \o d \o <<"0", "0", "0">>

\* the values of Prometheus that are skipped
SkippedValues == {<<"+", "I", "n", "f">>, <<"-", "I", "n", "f">>,
                  <<"n", "a", "n">>, <<"N", "a", "N">>}

\* a test of the value that lets `nan` and `NaN` through
IsInfinity(value) == value \in {<<"+", "I", "n", "f">>, <<"-", "I", "n", "f">>}

\* value == "+Inf" || value == "-Inf" || value == "nan" || value == "NaN"
IsSkipped(value) == value \in SkippedValues

\* the loop of format_prometheus over the characters of the labels
RECURSIVE FormatLabels(_, _, _, _)
FormatLabels(chars, in_label, buffer, labels) ==
  IF chars = <<>> THEN labels
  ELSE LET c == Head(chars)
       IN  IF c = "\"" THEN FormatLabels(Tail(chars), ~in_label, buffer, labels)
           ELSE IF ~in_label /\ c \in {"=", ",", "}"}
           THEN FormatLabels(Tail(chars), in_label, <<>>,
                             labels \o encode(buffer)
                                    \o (IF c \in {",", "="} THEN <<c>> ELSE <<>>))
           ELSE FormatLabels(Tail(chars), in_label, Append(buffer, c), labels)

\* transcompiler::format_prometheus(line, now)
format_prometheus(line, now) ==
  LET l == Trim(line)
  IN  IF StartsWith(l, <<"#">>) \/ l = <<>> THEN Ok(<<>>)
      ELSE LET index == IF Find(l, "{") # 0 THEN RFind(l, "}") ELSE Find(l, " ")
           IN  IF index = 0 THEN Err("bad class")
               ELSE LET class == SubSeq(l, 1, index)
                        tokens == SplitWhitespace(SubSeq(l, index + 1, Len(l)))
                    IN  IF tokens = <<>> THEN Err("no value")
                        ELSE IF IsSkipped(tokens[1]) THEN Ok(<<>>)
                        ELSE LET value == tokens[1]
                                 timestamp == IF Len(tokens) >= 2 /\ IsInteger(tokens[2])
                                              THEN Times1000(tokens[2]) ELSE now
                                 parts == SplitN2(class, <<"{">>)
                                 slabels == IF Len(parts) < 2 THEN <<>>
                                            ELSE FormatLabels(parts[2], FALSE, <<>>, <<>>)
                             IN  Ok(timestamp \o <<"/", "/", " ">> \o encode(Trim(parts[1]))
                                    \o <<"{">> \o slabels \o <<"}", " ">> \o value)

\* transcompiler::format_warp10
format_warp10(line) == Ok(Trim(line))

\* Transcompiler::format
Format(format, line, now) ==
  IF format = "sensision" THEN format_warp10(line) ELSE format_prometheus(line, now)

(* ------------------- calls of the pure functions ----------------------- *)
\* the longest label list of a line, and the most calls made on a line
MaxLabels == 2
MaxOps == 3

\* the sequences of at most n elements of S
SeqsUpTo(S, n) == UNION {[1..k -> S] : k \in 0..n}

\* labels as pairs <<key, value>>; `k=v,...` as the label list of a line
RECURSIVE RenderLabels(_)
RenderLabels(ls) ==
  IF ls = <<>> THEN <<>>
  ELSE ls[1][1] \o <<"=">> \o ls[1][2]
       \o (IF Len(ls) > 1 THEN <<",">> ELSE <<>>) \o RenderLabels(Tail(ls))

\* the canonical line `<ts>// <class>{<labels>} <value>`
RenderCanon(ts, class, ls, value) ==
  ts \o <<"/", "/", " ">> \o class \o <<"{">> \o RenderLabels(ls) \o <<"}", " ">> \o value

\* canonical lines: keys and values are percent-encoded, a value may be the
\* word that is the key of another label
CanonLabels == {<<k, v>> : k \in {<<"a">>, <<"b">>}, v \in {<<"x">>, <<"a">>}}
CanonSources ==
  [kind : {"canon"}, class : {<<"f">>}, labels : SeqsUpTo(CanonLabels, MaxLabels),
   value : {<<"1">>}]

\* a label value as Prometheus writes it between quotes: `\` and `"` escaped
RECURSIVE Quoted(_)
Quoted(v) ==
  IF v = <<>> THEN <<>>
  ELSE (IF Head(v) \in {"\\", "\""} THEN <<"\\", Head(v)>> ELSE <<Head(v)>>)
       \o Quoted(Tail(v))

RECURSIVE RenderPromLabels(_)
RenderPromLabels(ls) ==
  IF ls = <<>> THEN <<>>
  ELSE ls[1][1] \o <<"=", "\"">> \o Quoted(ls[1][2]) \o <<"\"">>
       \o (IF Len(ls) > 1 THEN <<",">> ELSE <<>>) \o RenderPromLabels(Tail(ls))

\* the label values of the exposition lines: plain, and with the characters
\* the canonical line uses as separators
PromValues == {<<"1">>, <<"1", "+", "3">>, <<"a", "=", "b">>, <<"a", ",", "b">>,
               <<"{", " ", "}">>, <<"x", "\"", "=", "y">>}
PromLabels == {<<<<"a">>, v>> : v \in PromValues}

\* lines of the Prometheus exposition format: metric lines (with a label list
\* or without braces, blank or tab before the value, with or without a
\* timestamp), blank lines and comments
PromSources ==
  [kind : {"prom"}, class : {<<"f">>}, braces : {TRUE},
   labels : SeqsUpTo(PromLabels, MaxLabels), sep : {" ", "\t"},
   value : SkippedValues \cup {<<"1">>}, ts : {<<>>, <<"5">>}]
  \cup [kind : {"prom"}, class : {<<"f">>}, braces : {FALSE}, labels : {<<>>},
        sep : {" ", "\t"}, value : SkippedValues \cup {<<"1">>}, ts : {<<>>, <<"5">>}]
  \cup [kind : {"blank"}, text : {<<>>, <<" ">>, <<"\t", " ">>}]
  \cup [kind : {"comment"}, text : {<<"#", " ", "x">>, <<" ", "#">>}]

\* lines that are not canonical: no `{`, no `} ` after the label list, a
\* label that is a bare word
RawSources ==
  [kind : {"raw"},
   text : {<<"1", "/", "/", " ", "f", " ", "1">>,
           <<"1", "/", "/", " ", "f", "{", "a", "=", "x", "}">>,
           <<"1", "/", "/", " ", "f", "{", "a", "}", " ", "1">>,
           <<"1", "/", "/", " ", "f", "{", "a", ",", "b", "=", "x", "}", " ", "1">>}]

\* the line of a source
Render(src) ==
  CASE src.kind = "canon" -> RenderCanon(<<"1">>, src.class, src.labels, src.value)
    [] src.kind = "prom" ->
         src.class
         \o (IF src.braces THEN <<"{">> \o RenderPromLabels(src.labels) \o <<"}">> ELSE <<>>)
         \o <<src.sep>> \o src.value
         \o (IF src.ts = <<>> THEN <<>> ELSE <<" ">> \o src.ts)
    [] OTHER -> src.text

\* the labels added (conf.labels) and the keys dropped (conf.filtered_labels)
ExtraLists == SeqsUpTo({<<<<"h">>, <<"1">>>>, <<<<"a">>, <<"1">>>>}, MaxLabels)
DropSets == SUBSET {<<"a">>, <<"b">>, <<"h">>}

\* Transcompiler.now
Now == <<"9">>

NoSource == [kind |-> "none"]

TextInit(sources) ==
  /\ tsrc \in sources
  /\ tline = IF tsrc.kind = "none" THEN Ok(<<>>) ELSE Ok(Render(tsrc))
  /\ tops = <<>>

\* transcompiler.format(line) of a scraper of format prometheus
FormatStep ==
  /\ tsrc.kind \in {"prom", "blank", "comment"}
  /\ tops = <<>>
  /\ tline' = format_prometheus(tline.val, Now)
  /\ tops' = <<[op |-> "format_prometheus", arg |-> <<>>]>>
  /\ UNCHANGED <<sinkVars, routerVars, scraperVars, tsrc>>

\* a line that reaches the label editor: canonical from the start or made so
\* by the transcompiler, and not skipped
Editable ==
  /\ tline.ok
  /\ tline.val # <<>>
  /\ tsrc.kind \in {"canon", "raw"} \/ tops # <<>>
  /\ Len(tops) < MaxOps

\* add_labels(&line, &labels) of Scraper::process and of Router::process
AddStep ==
  /\ Editable
  /\ \E L \in ExtraLists :
       /\ tline' = add_labels(tline.val, RenderLabels(L))
       /\ tops' = Append(tops, [op |-> "add_labels", arg |-> L])
  /\ UNCHANGED <<sinkVars, routerVars, scraperVars, tsrc>>

\* remove_labels(&line, &conf.filtered_labels) of Scraper::process
RemoveStep ==
  /\ Editable
  /\ \E D \in DropSets :
       /\ tline' = remove_labels(tline.val, D)
       /\ tops' = Append(tops, [op |-> "remove_labels", arg |-> D])
  /\ UNCHANGED <<sinkVars, routerVars, scraperVars, tsrc>>

(* ------------------------------ scrapers ------------------------------- *)
MaxScrapers == 2
MaxErrors == 2
MaxBodyLines == 3

Scrapers == 1..MaxScrapers

\* the sink variables a scraper leaves alone: all but `run`
sinkButRun == <<parallel, produced, disk, age, len, queue, acc, spawned, skipTtl, skipSize,
                state, files, reader, bcount, bsize, phase, dropped, last, dirty,
                lastAdmitted, cfgVars, haltVars, owner, boVars, scanHist>>

\* conf.labels joined as `k=v`, and conf.filtered_labels, of every scraper
ScraperLabels == <<<<<<"h">>, <<"1">>>>>>
ScraperDrop == {<<"b">>}

\* the values of params.batch_size
BatchSizes == {0, 12, 13, 30}

\* the lines an endpoint answers: of the exposition format (a comment, a
\* metric line and a line that is no metric line), and of the sensision
\* format (two lines with a class and a continuation line)
BodyLines(format) ==
  IF format = "prometheus"
  THEN {<<"#", " ", "x">>,
        <<"f", "{", "a", "=", "\"", "1", "\"", "}", " ", "1">>,
        <<"f">>}
  ELSE {<<"1", "/", "/", " ", "f", "{", "}", " ", "1">>,
        <<"1", "/", "/", " ", "f", "{", "b", "=", "x", "}", " ", "1">>,
        <<"=", "2", "/", "/", " ", "2">>}

\* the documents of scraper i: one to smaxlines[i] lines
Bodies(i) == UNION {[1..n -> BodyLines(sformat[i])] : n \in 1..smaxlines[i]}

ScraperInit(n, formats, maxlines, batches) ==
  /\ nscrapers = n
  /\ headersOk \in [Scrapers -> BOOLEAN]
  /\ \A i \in Scrapers : i > n => headersOk[i]
  /\ sformat = formats
  /\ smaxlines = maxlines
  /\ sbatch \in batches
  /\ sphase = [i \in Scrapers |-> "idle"]
  /\ sdata = [i \in Scrapers |-> <<>>]
  /\ fetchErrors = [i \in Scrapers |-> 0]
  /\ serror = [scraper |-> 0, error |-> "none"]
  /\ chunks = [i \in Scrapers |-> <<>>]

\* no scraper is configured
NoScraper ==
  ScraperInit(0, [i \in Scrapers |-> "prometheus"], [i \in Scrapers |-> 1], {0})

\* the runtimes of the scrapers poll their tasks
ScrapersUp == run \in {"up", "stopping"} /\ down = <<>>

\* a map_err that logs the error and does not count it
FetchLogged(i, e) ==
  /\ UNCHANGED fetchErrors
  /\ serror' = [scraper |-> i, error |-> e]
  /\ sphase' = [sphase EXCEPT ![i] = "idle"]
  /\ sdata' = [sdata EXCEPT ![i] = <<>>]

\* the map_err of the spawned future: the error is counted and logged, the
\* future ends
FetchFailed(i, e) ==
  /\ fetchErrors' = [fetchErrors EXCEPT ![i] = Min(MaxErrors, @ + 1)]
  /\ serror' = [scraper |-> i, error |-> e]
  /\ sphase' = [sphase EXCEPT ![i] = "idle"]
  /\ sdata' = [sdata EXCEPT ![i] = <<>>]

\* one tick of the Interval of scraper i: the request is built and the
\* future fetch -> process -> write is spawned; when the request cannot be
\* built, or when the Interval yields an error, for_each ends with the
\* error and its map_err aborts the process
STick(i) ==
  /\ ScrapersUp
  /\ i \in 1..nscrapers
  /\ sphase[i] = "idle"
  /\ \/ /\ headersOk[i]
        /\ sphase' = [sphase EXCEPT ![i] = "fetch"]
        /\ UNCHANGED run
     \/ /\ ~headersOk[i]
        /\ run' = "aborted"
        /\ UNCHANGED sphase
  /\ UNCHANGED <<routerVars, textVars, sinkButRun, scfgVars, sdata, fetchErrors, serror, chunks>>

\* the Interval of scraper i yields a timer error
STimerError(i) ==
  /\ ScrapersUp
  /\ i \in 1..nscrapers
  /\ run' = "aborted"
  /\ UNCHANGED <<routerVars, textVars, sinkButRun, scraperVars>>

\* what a request can end with: a 2xx response and its body, a response of
\* another status, a transport error, the timeout
FetchOutcomes == {"success", "status", "transport", "timeout"}

\* Scraper::fetch
SFetch(i) ==
  /\ ScrapersUp
  /\ sphase[i] = "fetch"
  /\ \E outcome \in FetchOutcomes :
       IF outcome = "success"
       THEN /\ \E body \in Bodies(i) : sdata' = [sdata EXCEPT ![i] = body]
            /\ sphase' = [sphase EXCEPT ![i] = "process"]
            /\ UNCHANGED <<fetchErrors, serror>>
       ELSE FetchFailed(i, outcome)
  /\ UNCHANGED <<routerVars, textVars, sinkVars, scfgVars, chunks>>

\* the loop of Scraper::process over body.lines(): the first error of
\* format, add_labels or remove_labels ends it with that error
RECURSIVE ProcessBody(_, _)
ProcessBody(body, format) ==
  IF body = <<>> THEN Ok(<<>>)
  ELSE LET formatted == Format(format, Head(body), Now)
       IN  IF ~formatted.ok THEN formatted
           ELSE IF formatted.val = <<>> THEN ProcessBody(Tail(body), format)
           ELSE LET added == IF StartsWith(formatted.val, <<"=">>) THEN formatted
                             ELSE add_labels(formatted.val, RenderLabels(ScraperLabels))
                    line == IF ~added.ok \/ StartsWith(formatted.val, <<"=">>) THEN added
                            ELSE remove_labels(added.val, ScraperDrop)
                    rest == ProcessBody(Tail(body), format)
                IN  IF ~line.ok THEN line
                    ELSE IF ~rest.ok THEN rest
                    ELSE Ok(<<line.val>> \o rest.val)

\* Scraper::process
SProcess(i) ==
  /\ ScrapersUp
  /\ sphase[i] = "process"
  /\ LET r == ProcessBody(sdata[i], sformat[i])
     IN  IF r.ok
         THEN /\ sdata' = [sdata EXCEPT ![i] = r.val]
              /\ sphase' = [sphase EXCEPT ![i] = "write"]
              /\ UNCHANGED <<fetchErrors, serror>>
         ELSE FetchFailed(i, "parse")
  /\ UNCHANGED <<routerVars, textVars, sinkVars, scfgVars, chunks>>

\* a loop that flushes as soon as the size is above the batch size
RECURSIVE ChunkAnywhere(_, _, _, _)
ChunkAnywhere(ls, batch_size, chunk, done) ==
  IF ls = <<>> THEN Append(done, chunk)
  ELSE LET line == Head(ls)
           size == batch_size + Len(line)
       IN  IF size > sbatch
           THEN ChunkAnywhere(Tail(ls), 0, <<line>>, Append(done, chunk))
           ELSE ChunkAnywhere(Tail(ls), size, Append(chunk, line), done)

\* the loop of Scraper::write over the lines: the chunk goes to a file of
\* its own when the size is above params.batch_size and the line does not
\* start with `=`; the last chunk goes to a file after the loop
RECURSIVE ChunkLoop(_, _, _, _)
ChunkLoop(ls, batch_size, chunk, done) ==
  IF ls = <<>> THEN Append(done, chunk)
  ELSE LET line == Head(ls)
           size == batch_size + Len(line)
       IN  IF size > sbatch /\ ~StartsWith(line, <<"=">>)
           THEN ChunkLoop(Tail(ls), 0, <<line>>, Append(done, chunk))
           ELSE ChunkLoop(Tail(ls), size, Append(chunk, line), done)

\* the subsequence of s at the indices of I
RECURSIVE Pick(_, _, _)
Pick(s, I, k) ==
  IF k > Len(s) THEN <<>>
  ELSE (IF k \in I THEN <<s[k]>> ELSE <<>>) \o Pick(s, I, k + 1)

\* Scraper::write: every chunk is written to a `.tmp` file by one
\* poll_write and renamed to `.metrics`; the join of these futures ends
\* well, or, when one of them fails, with an error that leaves the files of
\* some of the others
SWrite(i) ==
  /\ ScrapersUp
  /\ sphase[i] = "write"
  /\ LET all == ChunkLoop(sdata[i], 0, <<>>, <<>>)
     IN  \/ /\ \E k \in 1..Len(all) : \E w \in Written(all[k]) :
                 chunks' = [chunks EXCEPT ![i] = [all EXCEPT ![k] = w]]
            /\ sphase' = [sphase EXCEPT ![i] = "idle"]
            /\ sdata' = [sdata EXCEPT ![i] = <<>>]
            /\ UNCHANGED <<fetchErrors, serror>>
         \/ /\ \E I \in (SUBSET (1..Len(all))) \ {1..Len(all)} :
                 chunks' = [chunks EXCEPT ![i] = Pick(all, I, 1)]
            /\ FetchFailed(i, "io")
  /\ UNCHANGED <<routerVars, textVars, sinkVars, scfgVars>>

(* --------------------------- specification ----------------------------- *)
Init == SinkInit(1, {}, PlainBackoff) /\ RouterInit /\ HaltInit({"main"}) /\ TextInit({NoSource}) /\ NoScraper

SinkNext ==
  \/ Tick
  \/ Produce
  \/ Scan
  \/ ExecRemove
  \/ \E s \in 1..parallel : IdleWait(s)
  \/ \E s \in 1..parallel : IdleSend(s)
  \/ \E s \in 1..parallel : Waiting(s)
  \/ \E s \in 1..parallel : Backoff(s)
  \/ \E s \in 1..parallel : BodyPop(s)
  \/ \E s \in 1..parallel : BodyRead(s)
  \/ \E s \in 1..parallel : BodyEnd(s)
  \/ \E s \in 1..parallel : PostFail(s)
  \/ \E s \in 1..parallel : Success(s)

RouterNext ==
  \/ Scrape
  \/ RouterScan
  \/ \E p \in SrcPaths : Load(p)
  \/ \E p \in SrcPaths : Process(p)
  \/ \E p \in SrcPaths : WriteSink(p)
  \/ \E p \in SrcPaths : WriteDone(p)
  \/ \E p \in SrcPaths : Remove(p)

Next == SinkNext

\* the sink worker: its scanner and its senders
Spec == Init /\ [][Next]_vars

\* the router worker: its scanner and its per-file tasks
SpecRouter == Init /\ [][RouterNext]_vars

\* the scheduling of the tasks of a sink: the runtime polls the scanner at
\* every tick of its interval and runs every spawned removal; a sender is
\* polled again whenever it returned Ready or its timer or its request woke
\* it, the lock of the queue is not busy at every visit of Idle, and a
\* request whose body returned an error ends
SenderFair(s) ==
  /\ WF_vars(IdleWait(s))
  /\ SF_vars(IdleSend(s))
  /\ WF_vars(PostFail(s) /\ phase[s] = "err")
  /\ WF_vars(Waiting(s))
  /\ WF_vars(Backoff(s))
  /\ WF_vars(BodyPop(s))
  /\ WF_vars(BodyRead(s))
  /\ WF_vars(BodyEnd(s))
  /\ WF_vars(Success(s))

\* the sink worker under fair scheduling of its scanner, its removals and
\* its sender
SpecLive == Init /\ [][Next]_vars /\ WF_vars(Scan) /\ WF_vars(ExecRemove) /\ SenderFair(1)

\* the steps of the sink worker over a time shorter than ttl (the clock does
\* not tick)
WithinTtlNext ==
  \/ Produce
  \/ Scan
  \/ ExecRemove
  \/ \E s \in 1..parallel : IdleWait(s)
  \/ \E s \in 1..parallel : IdleSend(s)
  \/ \E s \in 1..parallel : Waiting(s)
  \/ \E s \in 1..parallel : Backoff(s)
  \/ \E s \in 1..parallel : BodyPop(s)
  \/ \E s \in 1..parallel : BodyRead(s)
  \/ \E s \in 1..parallel : BodyEnd(s)
  \/ \E s \in 1..parallel : PostFail(s)
  \/ \E s \in 1..parallel : Success(s)

\* the sink worker with a configured backoff: initial interval and maximum
\* set below the default of the crate, randomization on
InitBackoff == SinkInit(1, {}, ShortBackoff) /\ RouterInit /\ HaltInit({"main"}) /\ TextInit({NoSource}) /\ NoScraper

SpecBackoff == InitBackoff /\ [][WithinTtlNext]_vars

\* the sink worker of sink `a` in a configuration with other sinks, whose
\* files are in the same directory, over a time shorter than ttl
InitShared == SinkInit(1, PeerNames, PlainBackoff) /\ RouterInit /\ HaltInit({"main"}) /\ TextInit({NoSource}) /\ NoScraper

NextShared ==
  \/ WithinTtlNext
  \/ PeerRemove

SpecShared == InitShared /\ [][NextShared]_vars

\* the sink worker from its start to the shutdown of its runtime, over a
\* time shorter than ttl
NextStop ==
  \/ WithinTtlNext
  \/ SetStop
  \/ ShutdownScrapers
  \/ ShutdownRouter
  \/ ShutdownSinks
  \/ ShutdownMetrics

\* the process run by either entry point
InitStop == SinkInit(1, {}, PlainBackoff) /\ RouterInit /\ HaltInit(EntryPoints) /\ TextInit({NoSource}) /\ NoScraper

SpecStop == InitStop /\ [][NextStop]_vars

\* a sink with MaxParallel senders on one queue, over a time shorter than
\* ttl
InitSenders ==
  /\ SinkInit(MaxParallel, {}, PlainBackoff) /\ RouterInit /\ HaltInit({"main"})
  /\ TextInit({NoSource}) /\ NoScraper

SpecSenders == InitSenders /\ [][WithinTtlNext]_vars

\* the transcompiler and the label editor called on the lines of the model
InitText ==
  /\ SinkInit(1, {}, PlainBackoff) /\ RouterInit /\ HaltInit({"main"})
  /\ TextInit(CanonSources \cup PromSources \cup RawSources)
  /\ NoScraper

NextText ==
  \/ FormatStep
  \/ AddStep
  \/ RemoveStep

SpecText == InitText /\ [][NextText]_vars

\* two scrapers, of the exposition format and of the sensision format, the
\* headers of each valid or not
InitScraper ==
  /\ SinkInit(1, {}, PlainBackoff) /\ RouterInit /\ HaltInit({"main"})
  /\ TextInit({NoSource})
  /\ ScraperInit(2, <<"prometheus", "sensision">>, <<2, 1>>, {12})

NextScraper ==
  \/ \E i \in Scrapers : STick(i)
  \/ \E i \in Scrapers : STimerError(i)
  \/ \E i \in Scrapers : SFetch(i)
  \/ \E i \in Scrapers : SProcess(i)
  \/ \E i \in Scrapers : SWrite(i)

SpecScraper == InitScraper /\ [][NextScraper]_vars

\* one scraper of the sensision format, every batch size, documents of up to
\* MaxBodyLines lines
InitChunk ==
  /\ SinkInit(1, {}, PlainBackoff) /\ RouterInit /\ HaltInit({"main"})
  /\ TextInit({NoSource})
  /\ ScraperInit(1, <<"sensision", "sensision">>, <<MaxBodyLines, 1>>, BatchSizes)

SpecChunk == InitChunk /\ [][NextScraper]_vars

(* ------------------------------- claims -------------------------------- *)
\* the request of sender s ends in this step on the error branch after a
\* failed POST
PostFailed(s) == state[s] = "Sending" /\ last'[s].kind = "fail"

\* the request of sender s ends in this step after a 2xx response
PostAnswered2xx(s) == state[s] = "Sending" /\ last'[s].kind \in {"ok", "rmerr"}

\* the paths the body of sender s has popped from the queue
PoppedBy(s) == Range(files[s]) \cup ({dropped[s]} \ {NoPath})

\* C1: when a POST fails, every file whose path the body had popped from
\* the queue is pushed back into the queue and none of them is unlinked by
\* the sender.
C1_FailedPostRequeues ==
  [][\A s \in Senders : PostFailed(s) =>
       \A f \in PoppedBy(s) : f \in disk => f \in disk' /\ f \in Range(queue')]_vars

\* C2: when a POST returns 2xx, every file the body popped is unlinked, none
\* of them is put back in the queue and the sender returns to Idle.
C2_SuccessUnlinksAll ==
  [][\A s \in Senders : PostAnswered2xx(s) =>
       /\ state'[s] = "Idle"
       /\ \A f \in Range(files[s]) : f \notin disk' /\ f \notin Range(queue')]_vars

C6_PushBackKeepsOrder ==
  [][\A s \in Senders : PostFailed(s) =>
       SubSeq(queue', 1, Len(files[s])) = files[s]]_vars

\* the body of sender s pops a path from the queue in this step
Pops(s) ==
  /\ reader[s] = NoPath /\ dropped[s] = NoPath
  /\ reader'[s] # NoPath \/ dropped'[s] # NoPath

\* C7: draining is oldest-first: the path a body pops is the oldest (the
\* earliest produced) of the files in the queue.
C7_DrainOldestFirst ==
  [][\A s \in Senders : Pops(s) =>
       LET p == IF reader'[s] # NoPath THEN reader'[s] ELSE dropped'[s]
       IN  \A g \in Range(queue) : p <= g]_vars

\* the files a scan evicts because of the size cap in this step
SizeEvicted == (spawned' \ spawned) \cap Fresh(disk)

Admitted == {f \in Fresh(disk) \ acc : len[f] > 0}

Quiescent ==
  /\ spawned = {}
  /\ ~dirty
  /\ \A s \in Senders : state[s] # "Sending"

\* C9: at every quiescent point the sizes of the spool files of the sink
\* sum to at most max_size plus the size of the last admitted file.
C9_SpoolBounded == Quiescent => SumLen(disk) <= ConfSize + lastAdmitted

\* C10: at the moment a body opens a file to stream it, the age of the file
\* is at most ttl.
C10_NoExpiredFileSent ==
  [][\A s \in Senders : reader[s] = NoPath /\ reader'[s] # NoPath =>
       age[reader'[s]] <= Ttl]_vars

\* the source files the router has unlinked
Routed == {p \in SrcPaths : p <= srcProduced /\ p \notin srcDisk}

\* the lines of source file p the router owes to a sink
Owed(p, sink) == SinkBody(ProcessLines(content[p], GlobalLabels).lines, sink)

\* C4: the router unlinks a source file only after, for every sink whose
\* filtered line list is non-empty, a sink spool file containing those
\* lines has been completely written and renamed to `.metrics`.
C4_UnlinkAfterSinkFiles ==
  \A p \in Routed : \A i \in 1..Len(RouterSinks) :
    Owed(p, RouterSinks[i]) # <<>> =>
      \E f \in sinkSpool : /\ f.src = p
                           /\ f.sink = RouterSinks[i].name
                           /\ f.ext = "metrics"
                           /\ f.body = Owed(p, RouterSinks[i])

\* C5: when a step of routing a source file fails, the task does not unlink
\* the file and the path leaves the seen set, and the next scan that lists
\* the file dispatches it again.
C5_FailedTaskRetried ==
  /\ \A p \in failed : p \in srcDisk /\ p \notin rstate /\ task[p] = "none"
  /\ missed = {}

\* the write of a sink file of p failed after the `.tmp` file was created,
\* and a later scan has dispatched p again
C5_Witness ==
  \E p \in SrcPaths : /\ task[p] = "load"
                      /\ p \in rstate
                      /\ p \notin failed
                      /\ \E f \in sinkSpool : f.src = p /\ f.ext = "tmp"

(* ------------------------ claims C11 .. C20 ---------------------------- *)
\* the files a scan of the current state returns to the fold of the sink and
\* finds expired, and that no scan has ever pushed in the queue
SeenExpired == Expired(Mine(disk \ ZeroLen(disk))) \ admitted

\* C11: a file whose age already exceeds ttl when a scan observes it is
\* unlinked within that scan period (the scan spawns its removal and no
\* earlier scan has found it expired: the removal an earlier scan spawned
\* would have run), is not put in the queue, is never opened by a sender,
\* and the TTL-skip counter grows by one for it (it has not been counted by
\* an earlier scan).
C11_ExpiredSweptOnce ==
  [][/\ Scan => \A f \in SeenExpired :
                  /\ f \in spawned'
                  /\ f \notin Range(queue')
                  /\ f \notin ttlCounted
     /\ \A s \in Senders :
          reader[s] = NoPath /\ reader'[s] # NoPath => reader'[s] \in admitted]_vars

\* the files the sink holds: queued, in a request, or given to a removal
Held == Range(queue) \cup spawned \cup UNION {Range(files[s]) : s \in Senders}
             \cup ({reader[s] : s \in Senders} \ {NoPath})

\* C12: the scanner and the senders of a sink enqueue, send, evict and
\* unlink only files whose name starts with the name of that sink because
\* the router wrote them for it: every file the sink holds, and every file a
\* scan of the sink removes, is a file of the sink.
C12_SinkIsolation ==
  [][/\ \A f \in Held' : owner[f] = SinkName
     /\ Scan => \A f \in disk \ disk' : owner[f] = SinkName]_vars

\* the configured sink of a name
SinkNamed(name) == CHOOSE k \in Range(RouterSinks) : k.name = name

\* the lines whose class the selector of the sink matches, in order
RECURSIVE Retained(_, _)
Retained(ls, sink) ==
  IF ls = <<>> THEN <<>>
  ELSE IF sink.selector = "" \/ ClassIsMatch(sink.selector, Head(ls))
       THEN <<Head(ls)>> \o Retained(Tail(ls), sink)
       ELSE Retained(Tail(ls), sink)

\* C13: every sink spool file the router has written (renamed to
\* `.metrics`) holds exactly the lines of its source file, labels added,
\* that the selector of the sink retains (all of them without selector), in
\* the order of the source file, and a sink that retains no line gets no
\* file.
C13_SinkFileContent ==
  \A f \in sinkSpool :
    f.ext = "metrics" =>
      /\ f.body = Retained(ProcessLines(content[f.src], GlobalLabels).lines,
                           SinkNamed(f.sink))
      /\ f.body # <<>>

\* C14: a file gets its `.metrics` name only after the write of its body
\* has completed: a file that appears under a `.metrics` name in the sink
\* spool holds the whole body its task was writing, so that no reader sees
\* a file whose content is incomplete.
C14_RenameAfterWrite ==
  [][\A f \in sinkSpool' \ sinkSpool :
       f.ext = "metrics" => f.body = SinkBody(lines[f.src], SinkNamed(f.sink))]_vars

\* C15: every empty `.metrics` file a scan observes is unlinked during
\* that scan and left out of its result (it is neither in the seen set nor
\* in the queue after the scan), an empty file is never queued, sent or
\* given to a spawned removal, and no `.metrics` file is empty at a
\* quiescent point.
C15_EmptyFilesSwept ==
  [][/\ Scan => \A f \in disk : len[f] = 0 =>
                  f \notin disk' /\ f \notin acc' /\ f \notin Range(queue')
     /\ \A f \in Held' : len[f] > 0
     /\ Quiescent' => \A f \in disk' : len[f] > 0]_vars

\* C16: an error on a single entry (here: the unlink of an empty file that
\* a scanner of another sink removed first) is swallowed: the scan does not
\* fail and the worker that owns the scanner keeps running (the directory
\* itself can always be listed here, so no scan fails).
C16_EntryErrorsSwallowed == run # "aborted"

\* a request ends on the error branch although its body had no error: the
\* endpoint answered with a non-2xx status, or the transport failed or
\* timed out
EndpointFails == \E s \in Senders : PostFail(s) /\ phase[s] # "err"

\* C17: if from some point on the endpoint answers every request with 2xx
\* then, under fair scheduling, every file of the sink in the spool is
\* eventually sent and unlinked, unless it leaves the ttl (its age reaches
\* ttl) or the spool through the size cap (its eviction unlinks it).
C17_EventuallySent ==
  (<>[][~EndpointFails]_vars) =>
    \A f \in Paths : (f \in disk /\ len[f] > 0) ~> (f \notin disk \/ age[f] >= Ttl)

\* C18: while the POSTs of a sender keep failing, its successive backoff
\* delays never decrease and each is at most backoff.max.
C18_BackoffMonotoneBounded ==
  [][\A s \in Senders :
       state[s] = "Sending" /\ state'[s] = "Backoff" =>
         /\ prevDelay'[s] <= bconf.max
         /\ prevDelay'[s] >= prevDelay[s]]_vars

\* C19: a POST that gets a 2xx response resets the backoff of the sender
\* and takes the sender to Idle without a backoff sleep: its current
\* interval is backoff.initial again, whatever the failures before.
C19_SuccessResetsBackoff ==
  [][\A s \in Senders :
       PostAnswered2xx(s) => state'[s] = "Idle" /\ interval'[s] = bconf.initial]_vars

\* C20: once the stop flag is set no sender goes from Idle to Sending: no
\* new HTTP request starts
C20_NoRequestAfterStop ==
  [][run = "stopping" =>
       \A s \in Senders : ~(state[s] = "Idle" /\ state'[s] = "Sending")]_vars

(* ----------------------------- claims C21 .. C30 ----------------------- *)
\* C21: the runtimes are shut down in the order scrapers, router, sinks,
\* metrics endpoint: at every moment the runtimes already shut down are the
\* first ones of that order (so the router is never shut down after the
\* sinks)
C21_StopOrder ==
  \E n \in 0..4 : down = SubSeq(<<"scrapers", "router", "sinks", "metrics">>, 1, n)

\* the only call made on the line so far is format_prometheus
Formatted == Len(tops) = 1 /\ tops[1].op = "format_prometheus"

\* the line has the split point of the transcompiler between its class and
\* its value: the last `}` of a line with braces, else the first blank
HasSplitPoint(src) == src.braces \/ src.sep = " "

\* C26: format_prometheus returns Ok with the empty string for every line
\* that is empty after trimming, or a comment, or whose value token (the
\* first word after the split point) is +Inf, -Inf, nan or NaN, whatever
\* its class and labels
C26_SkippedLines ==
  (/\ Formatted
   /\ \/ tsrc.kind \in {"blank", "comment"}
      \/ tsrc.kind = "prom" /\ HasSplitPoint(tsrc) /\ tsrc.value \in SkippedValues)
  => tline = Ok(<<>>)

\* a line with a label whose value holds `}` and a value NaN after a tab
\* has been skipped
C26_Witness ==
  /\ Formatted
  /\ tsrc.kind = "prom" /\ tsrc.value = <<"N", "a", "N">> /\ tsrc.sep = "\t"
  /\ \E i \in 1..Len(tsrc.labels) : tsrc.labels[i][2] = <<"{", " ", "}">>
  /\ tline = Ok(<<>>)

\* the number of characters c in s
RECURSIVE Count(_, _)
Count(s, c) ==
  IF s = <<>> THEN 0 ELSE (IF Head(s) = c THEN 1 ELSE 0) + Count(Tail(s), c)

\* C27: in the canonical line made from a well-formed Prometheus line with
\* n labels the characters `=`, `,`, `{`, `}` and blank are separators
\* only: n `=`, n - 1 `,` (none for n = 0), one `{`, one `}` and two
\* blanks; what the quoted label values hold is percent-encoded
C27_OnlyStructuralSeparators ==
  (/\ Formatted
   /\ tsrc.kind = "prom" /\ tsrc.braces /\ tsrc.value \notin SkippedValues)
  => /\ tline.ok
     /\ LET n == Len(tsrc.labels)
        IN  /\ Count(tline.val, "=") = n
            /\ Count(tline.val, ",") = (IF n = 0 THEN 0 ELSE n - 1)
            /\ Count(tline.val, "{") = 1
            /\ Count(tline.val, "}") = 1
            /\ Count(tline.val, " ") = 2

\* the labels of ls whose key is not in D, in the order of ls
RECURSIVE Without(_, _)
Without(ls, D) ==
  IF ls = <<>> THEN <<>>
  ELSE (IF Head(ls)[1] \in D THEN <<>> ELSE <<Head(ls)>>) \o Without(Tail(ls), D)

\* C28: remove_labels removes exactly the labels whose key is to drop,
\* keeps the others in their order and leaves timestamp, class and value
\* as they are; with nothing to drop, or on a line without labels, the
\* line comes back unchanged
C28_RemoveExactly ==
  (/\ tsrc.kind = "canon"
   /\ Len(tops) = 1 /\ tops[1].op = "remove_labels")
  => tline = Ok(RenderCanon(<<"1">>, tsrc.class, Without(tsrc.labels, tops[1].arg),
                            tsrc.value))

\* a label was dropped between two labels kept, one of which has the
\* dropped key as its value
C28_Witness ==
  /\ tsrc.kind = "canon"
  /\ Len(tops) = 1 /\ tops[1].op = "remove_labels" /\ tops[1].arg = {<<"a">>}
  /\ tsrc.labels = <<<<<<"b">>, <<"a">>>>, <<<<"a">>, <<"x">>>>>>
  /\ tline = Ok(RenderCanon(<<"1">>, <<"f">>, <<<<<<"b">>, <<"a">>>>>>, <<"1">>))

\* C29: add_labels with labels to add puts them right after the first `{`,
\* followed by a comma exactly when the line has a label already, and
\* changes nothing else; with no labels to add the line comes back
\* unchanged
C29_AddAfterBrace ==
  (/\ tsrc.kind = "canon"
   /\ Len(tops) = 1 /\ tops[1].op = "add_labels")
  => LET l == Render(tsrc)
         extras == RenderLabels(tops[1].arg)
         at == Find(l, "{")
     IN  tline = Ok(IF extras = <<>> THEN l
                    ELSE SubSeq(l, 1, at) \o extras
                         \o (IF tsrc.labels # <<>> THEN <<",">> ELSE <<>>)
                         \o SubSeq(l, at + 1, Len(l)))

\* labels were added to a line without labels, and no comma follows them
C29_Witness ==
  /\ tsrc.kind = "canon" /\ tsrc.labels = <<>>
  /\ Len(tops) = 1 /\ tops[1].op = "add_labels" /\ Len(tops[1].arg) = 2
  /\ tline = Ok(RenderCanon(<<"1">>, <<"f">>, tops[1].arg, <<"1">>))

\* the keys of a label list
Keys(ls) == {ls[i][1] : i \in 1..Len(ls)}

\* C30: for a canonical line l and labels L, not empty, whose keys are not
\* keys of l, remove_labels(add_labels(l, L), keys(L)) is l, also when l
\* has no labels
C30_RoundTrip ==
  (/\ tsrc.kind = "canon"
   /\ Len(tops) = 2 /\ tops[1].op = "add_labels" /\ tops[2].op = "remove_labels"
   /\ tops[1].arg # <<>>
   /\ tops[2].arg = Keys(tops[1].arg)
   /\ Keys(tops[1].arg) \cap Keys(tsrc.labels) = {})
  => tline = Ok(Render(tsrc))

\* the round trip was made on a line without labels and on a line with a
\* label whose value is a key of L
C30_Witness ==
  /\ tsrc.kind = "canon" /\ tsrc.labels = <<<<<<"b">>, <<"a">>>>>>
  /\ Len(tops) = 2 /\ tops[1].op = "add_labels" /\ tops[2].op = "remove_labels"
  /\ tops[1].arg = <<<<<<"h">>, <<"1">>>>, <<<<"a">>, <<"1">>>>>>
  /\ tops[2].arg = {<<"h">>, <<"a">>}
  /\ tline = Ok(Render(tsrc))

\* a fatal error of scraper i: its request cannot be built, or its ticker
\* yields an error
ScraperFatal(i) == STimerError(i) \/ (STick(i) /\ ~headersOk[i])

\* C22: a fatal error in one scraper does not stop the other scrapers, the
\* router or the sinks: the process goes on running
C22_ScraperFailureIsolated ==
  [][\A i \in Scrapers : ScraperFatal(i) => run' \in {"up", "stopping"}]_vars

\* the ticker of scraper i is ready for its next tick
TickReady(i) ==
  /\ ScrapersUp
  /\ i \in 1..nscrapers
  /\ sphase[i] = "idle"
  /\ headersOk[i]

\* C23: a fetch that ends with a status that is not 2xx, a transport error
\* or a timeout writes no spool file and adds exactly one to the counter of
\* fetch errors of its scraper (and nothing to the others), and the next
\* tick of the scraper can run
C23_FailedFetch ==
  [][\A i \in Scrapers :
       sphase[i] = "fetch" /\ sphase'[i] = "idle" =>
         /\ chunks' = chunks
         /\ fetchErrors' = [fetchErrors EXCEPT ![i] = Min(MaxErrors, @ + 1)]
         /\ TickReady(i)']_vars

\* a fetch of scraper 1 has timed out: one error counted, no file written
C23_Witness ==
  /\ serror = [scraper |-> 1, error |-> "timeout"]
  /\ fetchErrors = [i \in Scrapers |-> IF i = 1 THEN 1 ELSE 0]
  /\ chunks[1] = <<>>
  /\ sphase[1] = "idle"

\* the lines Scraper::process gives when every line that is an error of
\* the transcompiler or of the label editor is left out
RECURSIVE SkipMalformed(_, _)
SkipMalformed(body, format) ==
  IF body = <<>> THEN <<>>
  ELSE LET one == ProcessBody(<<Head(body)>>, format)
       IN  (IF one.ok THEN one.val ELSE <<>>) \o SkipMalformed(Tail(body), format)

\* C24: a malformed line is skipped and the others go on: when a document
\* has lines to spool, Scraper::process hands exactly these lines to
\* Scraper::write, whatever malformed lines the document holds besides
C24_MalformedLineSkipped ==
  [][\A i \in Scrapers :
       (/\ sphase[i] = "process" /\ sphase'[i] # "process"
        /\ SkipMalformed(sdata[i], sformat[i]) # <<>>)
       => /\ sphase'[i] = "write"
          /\ sdata'[i] = SkipMalformed(sdata[i], sformat[i])]_vars

\* the number of lines of the files fs
RECURSIVE TotalLines(_)
TotalLines(fs) == IF fs = <<>> THEN 0 ELSE Len(Head(fs)) + TotalLines(Tail(fs))

\* C25: the chunking of Scraper::write never splits a datum: every file is
\* a run of whole consecutive lines, no line is in two files, and a file
\* begins with a continuation line (a line that starts with `=`) only when
\* that line is the first of all, so a continuation line is in the file of
\* the line before it
C25_ChunksKeepData ==
  [][\A i \in Scrapers :
       sphase[i] = "write" /\ sphase'[i] = "idle" =>
         LET ls == sdata[i]
             fs == chunks'[i]
         IN  /\ \A k \in 1..Len(fs) :
                  /\ \E a \in 1..(Len(ls) + 1) : \E b \in 0..Len(ls) :
                       fs[k] = SubSeq(ls, a, b)
                  /\ fs[k] # <<>> /\ StartsWith(fs[k][1], <<"=">>)
                       => k = 1 /\ StartsWith(ls[1], <<"=">>)
             /\ TotalLines(fs) <= Len(ls)]_vars

\* a write has left two files, one of which holds a line and its
\* continuation, longer together than the batch size
C25_Witness ==
  /\ Len(chunks[1]) >= 2
  /\ \E k \in 1..Len(chunks[1]) :
       /\ Len(chunks[1][k]) = 2
       /\ StartsWith(chunks[1][k][2], <<"=">>)
       /\ Len(chunks[1][k][1]) + Len(chunks[1][k][2]) > sbatch
  /\ serror.error = "none"

(* ----------------------------- claims C31 .. C40 ----------------------- *)
\* the label list of a line: what is between its first `{` and the first
\* `} ` after it
LabelList(l) == SplitN2(SplitN2(l, <<"{">>)[2], <<"}", " ">>)[1]

\* the line lacks `{`, or the `} ` that ends its label list, or one of its
\* labels has no `=`
Defective(l) ==
  \/ Find(l, "{") = 0
  \/ FindStr(SplitN2(l, <<"{">>)[2], <<"}", " ">>) = 0
  \/ /\ LabelList(l) # <<>>
     /\ \E i \in 1..Len(Split(LabelList(l), ",")) :
          Find(Split(LabelList(l), ",")[i], "=") = 0

\* C31: remove_labels with labels to drop returns an error, and no line,
\* for a line without `{`, without the `} ` that ends the label list, or
\* with a label that has no `=`
C31_RemoveRejectsMalformed ==
  (/\ tsrc.kind = "raw" /\ Defective(Render(tsrc))
   /\ Len(tops) = 1 /\ tops[1].op = "remove_labels" /\ tops[1].arg # {})
  => ~tline.ok

\* the moves of Sender.state the poll of a sender makes
SenderMoves ==
  {<<"Idle", "Waiting">>, <<"Idle", "Sending">>, <<"Sending", "Idle">>,
   <<"Sending", "Backoff">>, <<"Waiting", "Idle">>, <<"Backoff", "Idle">>}

\* sender s holds a request: a body that has popped a path, that is being
\* polled or that has ended
HoldsRequest(s) ==
  files[s] # <<>> \/ reader[s] # NoPath \/ phase[s] # "poll" \/ bcount[s] # 0

\* C32: a sender is in one of the states Idle, Sending, Waiting, Backoff;
\* its state changes by the moves Idle -> Waiting, Idle -> Sending,
\* Sending -> Idle, Sending -> Backoff, Waiting -> Idle, Backoff -> Idle
\* only, a request is Ok on the move Sending -> Idle and failed on the move
\* Sending -> Backoff, and a sender holds a request only while Sending
C32_SenderStates ==
  [][\A s \in Senders :
       /\ state[s] \in {"Idle", "Sending", "Waiting", "Backoff"}
       /\ state'[s] \in {"Idle", "Sending", "Waiting", "Backoff"}
       /\ state'[s] # state[s] => <<state[s], state'[s]>> \in SenderMoves
       /\ state[s] = "Sending" /\ state'[s] = "Idle" => last'[s].kind = "ok"
       /\ state[s] = "Sending" /\ state'[s] = "Backoff" => last'[s].kind \in {"fail", "rmerr"}
       /\ HoldsRequest(s) => state[s] = "Sending"
       /\ HoldsRequest(s)' => state'[s] = "Sending"]_vars

\* one sender is in Backoff after a request that failed with a file popped
\* while the other sender holds a request with a file popped
C32_Witness ==
  /\ state[1] = "Backoff" /\ last[1].kind = "fail" /\ last[1].n = 1
  /\ state[2] = "Sending" /\ files[2] # <<>>
  /\ ~HoldsRequest(1)

\* the body of sender s pops a path from the queue in this step
BodyPops(s) ==
  /\ state[s] = "Sending"
  /\ queue # <<>> /\ queue' = Tail(queue)
  /\ files'[s] # files[s] \/ dropped'[s] # dropped[s]

C34_PoppedIsRecorded ==
  \A s \in Senders :
    \A p \in PoppedBy(s) : p \in Range(files[s]) \/ p \in Range(queue)

\* the lines of the files fs, one file after the other
RECURSIVE Concat(_)
Concat(fs) == IF fs = <<>> THEN <<>> ELSE Head(fs) \o Concat(Tail(fs))

\* the write of scraper i ends in this step and its join has not failed
WriteEndsWell(i) ==
  /\ sphase[i] = "write" /\ sphase'[i] = "idle"
  /\ serror' # [scraper |-> i, error |-> "io"]

\* C35: the files a tick of a scraper has written, one after the other in
\* the order of their batch index, hold the processed lines of the tick,
\* each line once and in the order of the document, the lines after the
\* last flush included
C35_FilesHoldAllLines ==
  [][\A i \in Scrapers : WriteEndsWell(i) => Concat(chunks'[i]) = sdata[i]]_vars

\* C40: every file a scraper has renamed to `.metrics` holds at least one
\* line, also when the document gives no line after processing and when
\* the first line alone is longer than batch_size
C40_NoEmptyFile ==
  [][\A i \in Scrapers :
       WriteEndsWell(i) => \A k \in 1..Len(chunks'[i]) : chunks'[i][k] # <<>>]_vars

\* C36: a source file has at most one routing task in flight: a task is
\* started for a path only when no task of that path is in flight and the
\* path is not in the seen set, which it then enters; the path of a task
\* in flight is in the seen set, whatever the number of scans made during
\* the task; and a path leaves the seen set only when its task fails or
\* when a scan does not list the file any more
C36_OneTaskPerFile ==
  [][\A p \in SrcPaths :
       /\ task[p] # "none" => p \in rstate
       /\ task'[p] # "none" => p \in rstate'
       /\ task[p] \notin {"none", "load"} => task'[p] # "load"
       /\ task[p] = "none" /\ task'[p] # "none"
          => task'[p] = "load" /\ p \notin rstate /\ p \in srcDisk
       /\ p \in rstate /\ p \notin rstate'
          => \/ task[p] # "none" /\ task'[p] = "none" /\ p \in failed'
             \/ p \notin srcDisk /\ task[p] = "none"]_vars

\* the task of a file is writing the sink files for the second time (a
\* first task of the file failed after it had created a temp file) while a
\* later scan has started the task of another file
C36_Witness ==
  \E p, q \in SrcPaths :
    /\ p # q
    /\ task[p] = "write" /\ p \in rstate
    /\ \E f \in sinkSpool : f.src = p /\ f.ext = "tmp"
    /\ task[q] = "load" /\ q \in rstate

\* C39: a scan puts every file with the prefix of the sink that it returns
\* in one of two classes: expired (counted in the skip counter and given
\* to a removal, not kept among the paths of the scan) or fresh (kept among
\* the paths of the scan, which are summed and can enter the queue), a
\* file whose age is ttl exactly included
C39_ExpiredOrFresh ==
  [][Scan =>
       \A f \in Mine(disk) :
         len[f] > 0 =>
           \/ f \in ttlCounted' /\ f \in spawned' /\ f \notin acc'
           \/ f \in acc' /\ f \notin ttlCounted']_vars

\* the paths in the queue and in the consumed lists of the senders, with
\* their repetitions
RECURSIVE Consumed(_)
Consumed(n) == IF n = 0 THEN <<>> ELSE Consumed(n - 1) \o files[n]

\* C37: a path of the sink spool is at most once in the queue and the
\* consumed lists of the senders taken together: no file is in two
\* requests at a time and the scanner does not push a path that is queued
\* or in flight
C37_NoPathTwice ==
  LET held == queue \o Consumed(MaxParallel)
  IN  \A i, j \in 1..Len(held) : held[i] = held[j] => i = j

\* the two senders hold a request with a file each while a third path is
\* in the queue after a scan made during these requests
C37_Witness ==
  /\ files[1] # <<>> /\ files[2] # <<>> /\ queue # <<>>
  /\ state[1] = "Sending" /\ state[2] = "Sending"
  /\ Range(files[1]) \cup Range(files[2]) \subseteq acc
  /\ ~dirty

\* C38: no request is made with a body that holds no file: when the body
\* of a sender that left Idle for Sending ends, it has consumed a path of
\* the queue, also when several senders of the sink have seen the same
\* queue not empty
C38_NoEmptyPost ==
  \A s \in Senders : state[s] = "Sending" /\ phase[s] = "eof" => files[s] # <<>>

====
